---------------------------- MODULE Spec2Model ----------------------------
(***************************************************************************)
(* A model of fix_mp3.py: the repair of .mp3 / .srt references in scene   *)
(* (.tscn) files after the media files have been renamed on disk.         *)
(*                                                                         *)
(* Encoding of the program's values                                        *)
(*   character      a TLA+ string standing for one character ("a", "A",   *)
(*                  "aacute" for a-acute, "oelig" for the oe ligature,     *)
(*                  "sp" for a space, "us" for an underscore, ".", "-",    *)
(*                  "/"); "res://" and the extensions "mp3", "srt" are     *)
(*                  kept as one unit each.                                 *)
(*   str            a sequence of characters.  Python's None is the empty  *)
(*                  sequence: every regex group of the program is          *)
(*                  non-empty ([^"]+), so no captured string is empty.     *)
(*   pathlib.Path   relative to project_root, the sequence of its          *)
(*                  components, each component a str.                      *)
(*   file system    [dirs, files, side]: the set of directories, the       *)
(*                  files in directory-listing order (the order rglob      *)
(*                  yields them), and the .import sidecar of each file.    *)
(*   scene text     a sequence of items: ext_resource tags, bare           *)
(*                  assignments and other quoted strings.                  *)
(***************************************************************************)
EXTENDS Integers, Sequences, FiniteSets, TLC

VARIABLES
    fs,                 \* the project tree (media files, directories, sidecars)
    original_res_path,  \* find_renamed_file: its argument
    glob_ext,           \* find_renamed_file: its argument ("mp3" or "srt")
    found,              \* find_renamed_file: its result
    matches,            \* collect_*_changes: its argument
    label,              \* the reference kind of the batch, "MP3" or "SRT"
    phase,              \* position of the harness that calls the pure functions
    tscn,               \* main: the text of each scene file on disk
    readable,           \* main: whether read_text succeeds on each scene file
    idx,                \* main: the position of the loop in tscn_files
    pc,                 \* main: the statement the run is at
    content,            \* main: the text read from the current scene file
    new_content,        \* main
    file_changed,       \* main
    mp3_matches,        \* main
    srt_matches,        \* main
    pending,            \* the records of the current batch
    actionable,         \* preview_and_confirm: the actionable subset
    total_replacements, \* main
    exit_code,          \* the exit status of the process, -1 while it runs
    writes,             \* history: how often each scene file was written
    original,           \* history: the text of each scene file when the run began
    answers,            \* history: the answer given at each prompt of each file
    offered,            \* history: the actionable subset shown at each prompt
    given_name,         \* normalize_filename: its argument
    normalized,         \* the results of successive calls of normalize_filename
    pending_files,      \* FileWatcher.pending_files
    lock,               \* FileWatcher.lock: <<>> when free, else its holder
    timer,              \* FileWatcher.timer: 0 for None, else the Timer
    timers,             \* the threading.Timer objects created so far
    callers,            \* the threads that call on_file_change
    reported,           \* history: the paths passed to on_file_change
    handed              \* history: the calls of git_add_commit_push

resolveVars == <<original_res_path, glob_ext, found>>

planVars == <<matches, label>>

runVars == <<tscn, readable, idx, pc, content, new_content, file_changed,
             mp3_matches, srt_matches, total_replacements, exit_code,
             writes, original, answers, offered>>

normVars == <<given_name, normalized>>

watchVars == <<pending_files, lock, timer, timers, callers, reported, handed>>

vars == <<fs, normVars, watchVars, resolveVars, planVars, phase, pending,
          actionable, runVars>>

-----------------------------------------------------------------------------
(* Bounds of the model.                                                    *)

\* the most media files a generated project tree holds
MaxFiles == 2

\* the most references a generated batch holds
MaxRefs == 2

\* the number of scene files of a run
NScenes == 2

-----------------------------------------------------------------------------
(* Generic helpers.                                                        *)

None == <<>>

Range(s) == {s[i] : i \in 1..Len(s)}

Front(s) == SubSeq(s, 1, Len(s) - 1)

Last(s) == s[Len(s)]

RECURSIVE Concat(_)
Concat(ss) == IF ss = <<>> THEN <<>> ELSE Head(ss) \o Concat(Tail(ss))

IsPrefix(p, s) == Len(p) <= Len(s) /\ SubSeq(s, 1, Len(p)) = p

\* the sequences over S of length at most n without a repeated element
DistinctSeqs(S, n) ==
    {s \in UNION {[1..k -> S] : k \in 0..n} :
        \A i, j \in 1..Len(s) : i # j => s[i] # s[j]}

-----------------------------------------------------------------------------
(* normalize_filename                                                      *)

Replacements ==
    [c \in {"aacute", "Aacute", "oelig"} |->
        CASE c = "aacute" -> <<"a">>
          [] c = "Aacute" -> <<"A">>
          [] c = "oelig"  -> <<"o", "e">>]

\* [a-zA-Z0-9.\-]; an extension unit is made of such characters
Whitelist == {"a", "b", "c", "e", "o", "A", "B", ".", "-", "mp3", "srt"}

\* a variant whose re.sub drops only the first character outside the whitelist
normalize_filename_sub_once(name) ==
    LET replaced == Concat([i \in 1..Len(name) |->
                        IF name[i] \in DOMAIN Replacements
                        THEN Replacements[name[i]] ELSE <<name[i]>>])
        nospace  == SelectSeq(replaced, LAMBDA c : c # "sp")
        bad      == {i \in 1..Len(nospace) : nospace[i] \notin Whitelist}
    IN  IF bad = {} THEN nospace
        ELSE LET i == CHOOSE i \in bad : \A j \in bad : i <= j
             IN  SubSeq(nospace, 1, i - 1) \o SubSeq(nospace, i + 1, Len(nospace))

normalize_filename(name) ==
    LET replaced == Concat([i \in 1..Len(name) |->
                        IF name[i] \in DOMAIN Replacements
                        THEN Replacements[name[i]] ELSE <<name[i]>>])
        nospace  == SelectSeq(replaced, LAMBDA c : c # "sp")
    IN  SelectSeq(nospace, LAMBDA c : c \in Whitelist)

-----------------------------------------------------------------------------
(* fuzzy_score: difflib.SequenceMatcher(None, a.lower(), b.lower()).ratio() *)

LowerChar(c) ==
    CASE c = "A"      -> "a"
      [] c = "B"      -> "b"
      [] c = "Aacute" -> "aacute"
      [] OTHER        -> c

Lower(s) == [i \in 1..Len(s) |-> LowerChar(s[i])]

\* the length of the common run of a and b starting at a[i], b[j], within
\* a[..ahi], b[..bhi]
RECURSIVE RunLen(_, _, _, _, _, _)
RunLen(a, b, i, j, ahi, bhi) ==
    IF i <= ahi /\ j <= bhi /\ a[i] = b[j]
    THEN 1 + RunLen(a, b, i + 1, j + 1, ahi, bhi)
    ELSE 0

\* SequenceMatcher.find_longest_match on a[alo..ahi], b[blo..bhi] (no junk):
\* the longest block, of those the one starting earliest in a, of those the
\* one starting earliest in b
find_longest_match(a, b, alo, ahi, blo, bhi) ==
    LET len(i, j) == RunLen(a, b, i, j, ahi, bhi)
        pairs == (alo..ahi) \X (blo..bhi)
        better(p, r) ==
            \/ len(p[1], p[2]) > len(r[1], r[2])
            \/ /\ len(p[1], p[2]) = len(r[1], r[2])
               /\ \/ p[1] < r[1]
                  \/ p[1] = r[1] /\ p[2] < r[2]
    IN  IF pairs = {} THEN <<alo, blo, 0>>
        ELSE LET p == CHOOSE p \in pairs : \A r \in pairs \ {p} : better(p, r)
             IN  <<p[1], p[2], len(p[1], p[2])>>

\* the sum of the sizes of SequenceMatcher.get_matching_blocks
RECURSIVE MatchSize(_, _, _, _, _, _)
MatchSize(a, b, alo, ahi, blo, bhi) ==
    LET m == find_longest_match(a, b, alo, ahi, blo, bhi)
    IN  IF m[3] = 0 THEN 0
        ELSE m[3]
             + MatchSize(a, b, alo, m[1] - 1, blo, m[2] - 1)
             + MatchSize(a, b, m[1] + m[3], ahi, m[2] + m[3], bhi)

\* the ratio 2.0 * matches / (len(a) + len(b)) as a fraction; 1.0 when both
\* are empty
fuzzy_score(a, b) ==
    LET la == Lower(a)
        lb == Lower(b)
        T  == Len(la) + Len(lb)
    IN  IF T = 0 THEN [n |-> 1, d |-> 1]
        ELSE [n |-> 2 * MatchSize(la, lb, 1, Len(la), 1, Len(lb)), d |-> T]

ScoreGT(s, t) == s.n * t.d > t.n * s.d

ScoreGE(s, t) == s.n * t.d >= t.n * s.d

\* the acceptance threshold 0.7 of the fuzzy tier
ThresholdNum == 7
ThresholdDen == 10

Threshold == [n |-> ThresholdNum, d |-> ThresholdDen]

-----------------------------------------------------------------------------
(* pathlib                                                                 *)

\* a value no path takes (a component is never empty): find_renamed_file's None
NoPath == << <<>> >>

\* str.replace('res://', '')
StripRes(s) == SelectSeq(s, LAMBDA c : c # "res://")

\* the components of a relative path string: split at "/", empty and "."
\* components dropped
RECURSIVE Parts(_)
Parts(s) ==
    IF s = <<>> THEN <<>>
    ELSE LET cut  == IF \E i \in 1..Len(s) : s[i] = "/"
                     THEN CHOOSE i \in 1..Len(s) :
                            s[i] = "/" /\ \A j \in 1..(i - 1) : s[j] # "/"
                     ELSE Len(s) + 1
             comp == SubSeq(s, 1, cut - 1)
             rest == Parts(SubSeq(s, cut + 1, Len(s)))
         IN  IF comp = <<>> \/ comp = <<".">> THEN rest ELSE <<comp>> \o rest

\* Path.as_posix
RECURSIVE AsPosix(_)
AsPosix(p) ==
    IF p = <<>> THEN <<>>
    ELSE IF Len(p) = 1 THEN p[1]
    ELSE p[1] \o <<"/">> \o AsPosix(Tail(p))

\* Path.stem: the name up to its last dot, unless that dot is first or last
Stem(name) ==
    IF \E i \in 1..Len(name) : name[i] = "."
    THEN LET i == CHOOSE i \in 1..Len(name) :
                    name[i] = "." /\ \A j \in (i + 1)..Len(name) : name[j] # "."
         IN  IF 1 < i /\ i < Len(name) THEN SubSeq(name, 1, i - 1) ELSE name
    ELSE name

Parent(p) == IF p = <<>> THEN <<>> ELSE Front(p)

Name(p) == IF p = <<>> THEN <<>> ELSE Last(p)

IsFile(disk, p) == p \in Range(disk.files)

IsDir(disk, p) == p \in disk.dirs

Exists(disk, p) == IsFile(disk, p) \/ IsDir(disk, p)

\* fnmatch of a name against '*.<ext>'
GlobMatch(name, ext) ==
    Len(name) >= 2 /\ name[Len(name)] = ext /\ name[Len(name) - 1] = "."

\* search_dir.rglob('*.<ext>'): the matching files below dir, in listing order
RGlob(disk, dir, ext) ==
    SelectSeq(disk.files,
              LAMBDA f : IsPrefix(dir, Parent(f)) /\ GlobMatch(Name(f), ext))

\* abs_to_res
abs_to_res(p) == <<"res://">> \o AsPosix(p)

-----------------------------------------------------------------------------
(* find_renamed_file                                                       *)

\* the directory the fuzzy tier searches: the parent if it exists, else the
\* nearest existing path parts[:i], i = len(parts) .. 1, else the parent
SearchDir(disk, parts) ==
    LET parent == Parent(parts)
        hits   == {i \in 1..Len(parts) : Exists(disk, SubSeq(parts, 1, i))}
    IN  IF Exists(disk, parent) \/ hits = {} THEN parent
        ELSE SubSeq(parts, 1, CHOOSE i \in hits : \A j \in hits : j <= i)

\* the loop over the candidates: the first one at the highest score above 0.0
RECURSIVE BestOf(_, _, _, _)
BestOf(cands, norm_stem, best_score, best_path) ==
    IF cands = <<>> THEN [score |-> best_score, path |-> best_path]
    ELSE LET f     == Head(cands)
             score == fuzzy_score(norm_stem, Lower(Stem(Name(f))))
         IN  IF ScoreGT(score, best_score)
             THEN BestOf(Tail(cands), norm_stem, score, f)
             ELSE BestOf(Tail(cands), norm_stem, best_score, best_path)

FuzzyCandidates(disk, parts, ext) ==
    LET search_dir == SearchDir(disk, parts)
    IN  IF IsDir(disk, search_dir) THEN RGlob(disk, search_dir, ext) ELSE <<>>

NormStem(parts) == Lower(normalize_filename(Stem(Name(parts))))

\* a variant that forgets the threshold
FuzzyAcceptAnyScore(best) == best.path # NoPath

FuzzyAccept(best) ==
    best.path # NoPath /\ ScoreGE(best.score, Threshold)

FuzzyTier(disk, parts, ext) ==
    LET best == BestOf(FuzzyCandidates(disk, parts, ext), NormStem(parts),
                       [n |-> 0, d |-> 1], NoPath)
    IN  IF FuzzyAccept(best) THEN best.path ELSE NoPath

NormalizedCandidate(parts) ==
    LET norm_name == normalize_filename(Name(parts))
    IN  IF norm_name = <<>> THEN Parent(parts)
        ELSE Append(Parent(parts), norm_name)

\* a variant that tries the fuzzy tier before the exact and normalized names
find_renamed_file_fuzzy_first(path, disk, ext) ==
    LET original_abs == Parts(StripRes(path))
        candidate    == NormalizedCandidate(original_abs)
        fuzzy        == FuzzyTier(disk, original_abs, ext)
    IN  IF fuzzy # NoPath THEN fuzzy
        ELSE IF Exists(disk, original_abs) THEN original_abs
        ELSE IF Exists(disk, candidate) THEN candidate
        ELSE NoPath

find_renamed_file(path, disk, ext) ==
    LET original_abs == Parts(StripRes(path))
        candidate    == NormalizedCandidate(original_abs)
    IN  IF Exists(disk, original_abs) THEN original_abs
        ELSE IF Exists(disk, candidate) THEN candidate
        ELSE FuzzyTier(disk, original_abs, ext)

-----------------------------------------------------------------------------
(* read_import_uid and the .import sidecars                                *)

\* a sidecar is missing, unreadable (read_text raises) or a text of lines;
\* a line is a key and the quoted value assigned to it
Missing == [state |-> "missing", lines |-> <<>>]

Unreadable == [state |-> "unreadable", lines |-> <<>>]

SidecarText(lines) == [state |-> "text", lines |-> lines]

UidLine(tok) == [key |-> "uid", val |-> tok]

OtherLine == [key |-> "importer", val |-> <<"mp3">>]

\* the sidecar <name>.import beside file f
SidecarOf(disk, f) == IF f \in DOMAIN disk.side THEN disk.side[f] ELSE Missing

\* import_file.exists()
ImportExists(disk, f) == SidecarOf(disk, f).state # "missing"

\* the first line  uid = "<non-empty>"  of the sidecar, None without one or
\* when the read raises
read_import_uid(sidecar) ==
    IF sidecar.state # "text" THEN None
    ELSE LET hits == {i \in 1..Len(sidecar.lines) :
                        /\ sidecar.lines[i].key = "uid"
                        /\ sidecar.lines[i].val # <<>>}
         IN  IF hits = {} THEN None
             ELSE sidecar.lines[CHOOSE i \in hits : \A j \in hits : i <= j].val

-----------------------------------------------------------------------------
(* collect_mp3_changes, collect_srt_changes                                *)

WarnNotFound == "renamed file not found on disk"
WarnNoImport == ".import file not found - uid will stay unchanged"
WarnNoUid    == "could not read uid from .import - uid will stay unchanged"
WarnNothing  == "nothing to change"

Entry(old_path, old_uid, new_res_path, new_uid, warn) ==
    [old_path |-> old_path, old_uid |-> old_uid,
     new_res_path |-> new_res_path, new_uid |-> new_uid, warn |-> warn]

\* a variant that takes whatever read_import_uid returns
Mp3UidNoFallback(disk, new_file, old_uid) ==
    IF ~ImportExists(disk, new_file)
    THEN [uid |-> old_uid, warn |-> <<WarnNoImport>>]
    ELSE LET new_uid == read_import_uid(SidecarOf(disk, new_file))
         IN  IF new_uid = None
             THEN [uid |-> new_uid, warn |-> <<WarnNoUid>>]
             ELSE [uid |-> new_uid, warn |-> <<>>]

\* the uid of a resolved audio file and the warning that goes with it
Mp3Uid(disk, new_file, old_uid) ==
    IF ~ImportExists(disk, new_file)
    THEN [uid |-> old_uid, warn |-> <<WarnNoImport>>]
    ELSE LET new_uid == read_import_uid(SidecarOf(disk, new_file))
         IN  IF new_uid = None
             THEN [uid |-> old_uid, warn |-> <<WarnNoUid>>]
             ELSE [uid |-> new_uid, warn |-> <<>>]

\* a variant that warns "nothing to change" as soon as the path is unchanged
Mp3EntryWarnsOnPath(old_path, old_uid, disk) ==
    LET new_file == find_renamed_file(old_path, disk, "mp3")
    IN  IF new_file = NoPath
        THEN Entry(old_path, old_uid, None, None, <<WarnNotFound>>)
        ELSE LET new_res_path == abs_to_res(new_file)
                 u            == Mp3Uid(disk, new_file, old_uid)
                 warn         == IF old_path = new_res_path
                                 THEN u.warn \o <<WarnNothing>> ELSE u.warn
             IN  Entry(old_path, old_uid, new_res_path, u.uid, warn)

\* one pass of the loop of collect_mp3_changes
Mp3Entry(old_path, old_uid, disk) ==
    LET new_file == find_renamed_file(old_path, disk, "mp3")
    IN  IF new_file = NoPath
        THEN Entry(old_path, old_uid, None, None, <<WarnNotFound>>)
        ELSE LET new_res_path == abs_to_res(new_file)
                 u            == Mp3Uid(disk, new_file, old_uid)
                 warn         == IF old_path = new_res_path /\ old_uid = u.uid
                                 THEN u.warn \o <<WarnNothing>> ELSE u.warn
             IN  Entry(old_path, old_uid, new_res_path, u.uid, warn)

collect_mp3_changes(refs, disk) ==
    [i \in 1..Len(refs) |-> Mp3Entry(refs[i][1], refs[i][2], disk)]

\* a variant whose not-found record keeps the old uid as the new one
SrtEntryKeepsUid(old_path, old_uid, disk) ==
    LET new_file == find_renamed_file(old_path, disk, "srt")
    IN  IF new_file = NoPath
        THEN Entry(old_path, old_uid, None, old_uid, <<WarnNotFound>>)
        ELSE LET new_res_path == abs_to_res(new_file)
                 warn         == IF old_path = new_res_path
                                 THEN <<WarnNothing>> ELSE <<>>
             IN  Entry(old_path, old_uid, new_res_path, old_uid, warn)

\* a variant whose resolved record carries no uid
SrtEntryDropsUid(old_path, old_uid, disk) ==
    LET new_file == find_renamed_file(old_path, disk, "srt")
    IN  IF new_file = NoPath
        THEN Entry(old_path, old_uid, None, None, <<WarnNotFound>>)
        ELSE LET new_res_path == abs_to_res(new_file)
                 warn         == IF old_path = new_res_path
                                 THEN <<WarnNothing>> ELSE <<>>
             IN  Entry(old_path, old_uid, new_res_path, None, warn)

\* one pass of the loop of collect_srt_changes
SrtEntry(old_path, old_uid, disk) ==
    LET new_file == find_renamed_file(old_path, disk, "srt")
    IN  IF new_file = NoPath
        THEN Entry(old_path, old_uid, None, None, <<WarnNotFound>>)
        ELSE LET new_res_path == abs_to_res(new_file)
                 warn         == IF old_path = new_res_path
                                 THEN <<WarnNothing>> ELSE <<>>
             IN  Entry(old_path, old_uid, new_res_path, old_uid, warn)

collect_srt_changes(refs, disk) ==
    [i \in 1..Len(refs) |-> SrtEntry(refs[i][1], refs[i][2], disk)]

-----------------------------------------------------------------------------
(* preview_and_confirm: the actionable subset                              *)

\* a variant that does not ask whether the file was found
IsActionableUnresolved(entry) ==
    \/ entry.old_path # entry.new_res_path
    \/ entry.old_uid # None /\ entry.old_uid # entry.new_uid

IsActionable(entry) ==
    /\ entry.new_res_path # None
    /\ \/ entry.old_path # entry.new_res_path
       \/ entry.old_uid # None /\ entry.old_uid # entry.new_uid

Actionable(records) == SelectSeq(records, IsActionable)

-----------------------------------------------------------------------------
(* The scene text and apply_changes                                        *)

\* an item of the text: an ext_resource tag  [ext_resource type="T" path="P"
\* id="I"]  (id possibly missing), a bare assignment  name = "P",  or a quoted
\* string in another place, such as  ExtResource("I")
Tag(type, path, id) == [k |-> "tag", type |-> type, path |-> path, id |-> id]

Bare(path) == [k |-> "bare", type |-> None, path |-> path, id |-> None]

Use(id) == [k |-> "use", type |-> None, path |-> None, id |-> id]

AudioStream == <<"AudioStream">>

\* content.replace('path="<old>"', 'path="<new>"')
ReplacePathAttr(text, old, new) ==
    [i \in 1..Len(text) |->
        IF text[i].k = "tag" /\ text[i].path = old
        THEN [text[i] EXCEPT !.path = new] ELSE text[i]]

\* content.replace('"<old>"', '"<new>"'): every quoted string equal to old
ReplaceQuoted(text, old, new) ==
    [i \in 1..Len(text) |->
        [text[i] EXCEPT !.type = IF @ = old THEN new ELSE @,
                           !.path = IF @ = old THEN new ELSE @,
                           !.id   = IF @ = old THEN new ELSE @]]

\* the body of the loop of apply_changes
ApplyEntry(text, e, has_uid) ==
    LET c1 == IF e.old_path # e.new_res_path
              THEN ReplaceQuoted(ReplacePathAttr(text, e.old_path, e.new_res_path),
                                 e.old_path, e.new_res_path)
              ELSE text
    IN  IF has_uid /\ e.old_uid # None /\ e.old_uid # e.new_uid
        THEN ReplaceQuoted(c1, e.old_uid, e.new_uid)
        ELSE c1

RECURSIVE apply_changes(_, _, _)
apply_changes(text, accepted, has_uid) ==
    IF accepted = <<>> THEN text
    ELSE apply_changes(ApplyEntry(text, Head(accepted), has_uid),
                       Tail(accepted), has_uid)

-----------------------------------------------------------------------------
(* The reference extraction of main                                        *)

\* [^"]+\.<ext>
EndsIn(s, ext) ==
    Len(s) >= 3 /\ s[Len(s)] = ext /\ s[Len(s) - 1] = "."

\* mp3_re.findall: the tags with type="AudioStream", a path ending in .mp3
\* and an id, in text order
Mp3Findall(text) ==
    LET hits == SelectSeq(text,
                    LAMBDA it : /\ it.k = "tag"
                                /\ it.type = AudioStream
                                /\ EndsIn(it.path, "mp3")
                                /\ it.id # None)
    IN  [i \in 1..Len(hits) |-> <<hits[i].path, hits[i].id>>]

\* pass 1: every ext_resource tag with a path ending in .srt
SrtTagMatches(text) ==
    LET hits == SelectSeq(text,
                    LAMBDA it : it.k = "tag" /\ EndsIn(it.path, "srt"))
    IN  [i \in 1..Len(hits) |-> <<hits[i].path, hits[i].id>>]

\* the quoted values that directly follow a "=" in an item, in text order
Assigned(it) ==
    IF it.k = "tag"
    THEN SelectSeq(<<it.type, it.path, it.id>>, LAMBDA v : v # None)
    ELSE IF it.k = "bare" THEN <<it.path>>
    ELSE <<>>

\* srt_string_re.finditer:  = "res://<something>.srt"
SrtStringMatches(text) ==
    SelectSeq(Concat([i \in 1..Len(text) |-> Assigned(text[i])]),
              LAMBDA v : Len(v) >= 4 /\ v[1] = "res://" /\ EndsIn(v, "srt"))

\* a variant that collects tags and bare assignments in one pass over the text
SrtMatchesTextOrder(text) ==
    LET tags          == SrtTagMatches(text)
        srt_tag_paths == {tags[i][1] : i \in 1..Len(tags)}
        isTag(it)     == it.k = "tag" /\ EndsIn(it.path, "srt")
        isPlain(it)   == /\ it.k = "bare"
                         /\ it.path \in Range(SrtStringMatches(<<it>>))
                         /\ it.path \notin srt_tag_paths
        hits          == SelectSeq(text, LAMBDA it : isTag(it) \/ isPlain(it))
    IN  [i \in 1..Len(hits) |->
            <<hits[i].path, IF isTag(hits[i]) THEN hits[i].id ELSE None>>]

\* a variant whose second pass does not skip the paths of the first
SrtMatchesNoSkip(text) ==
    LET tags  == SrtTagMatches(text)
        plain == SrtStringMatches(text)
    IN  tags \o [i \in 1..Len(plain) |-> <<plain[i], None>>]

\* pass 1 then pass 2, which skips the paths pass 1 has seen
SrtMatches(text) ==
    LET tags          == SrtTagMatches(text)
        srt_tag_paths == {tags[i][1] : i \in 1..Len(tags)}
        plain         == SelectSeq(SrtStringMatches(text),
                                   LAMBDA v : v \notin srt_tag_paths)
    IN  tags \o [i \in 1..Len(plain) |-> <<plain[i], None>>]

-----------------------------------------------------------------------------
(* The inputs: project trees and reference paths.                          *)

DirD == <<"d">>
DirE == <<"e">>

\* the directories a generated tree may hold below the project root
TreeDirs == {<<DirD>>, <<DirD, DirE>>}

\* the stems of the file names on disk and in references
Stems ==
    { <<"aacute", "b">>,        \* an accented original name
      <<"a", "b">>,             \* its normalized form
      <<"A", "b">>,             \* the same up to case
      <<"a", "b", "c">>,        \* scores 4/5 against "ab"
      <<"c", "a", "b">>,        \* scores 4/5 against "ab" too
      <<"a">> }                 \* scores 2/3 against "ab"

FileName(stem, ext) == stem \o <<".", ext>>

TreeFiles(exts) ==
    {Append(d, FileName(s, x)) : d \in TreeDirs \cup {<<>>}, s \in Stems, x \in exts}

\* every prefix of the directory of a file
Ancestors(p) == {SubSeq(p, 1, i) : i \in 0..(Len(p) - 1)}

NoSidecars == [f \in {} |-> None]

\* the trees with at most n files among `files`: a directory exists when a file
\* lies below it, and may exist without one
Trees(files, n) ==
    {[dirs |-> t[1] \cup {<<>>}, files |-> t[2], side |-> NoSidecars] :
        t \in {t \in (SUBSET TreeDirs) \X DistinctSeqs(files, n) :
                LET ds == t[1] \cup {<<>>}
                IN  /\ \A d \in ds : Ancestors(d) \subseteq ds
                    /\ \A f \in Range(t[2]) : Ancestors(f) \subseteq ds}}

\* the reference paths and ids of the generated scene texts and batches
ResPath(dir, stem, ext) == abs_to_res(Append(dir, FileName(stem, ext)))

AccentMp3 == ResPath(<<DirD>>, <<"aacute", "b">>, "mp3")
PlainMp3  == ResPath(<<DirD>>, <<"a", "b">>, "mp3")
AbcMp3    == ResPath(<<DirD>>, <<"a", "b", "c">>, "mp3")
AccentSrt == ResPath(<<DirD>>, <<"aacute", "b">>, "srt")
PlainSrt  == ResPath(<<DirD>>, <<"a", "b">>, "srt")

Uid1 == <<"uid1">>
Uid2 == <<"uid2">>

\* the media files of the trees the planner and the run work on, in their
\* listing order
MediaFiles ==
    << <<DirD, FileName(<<"a", "b">>, "mp3")>>,
       <<DirD, FileName(<<"a", "b", "c">>, "mp3")>>,
       <<DirD, FileName(<<"a", "b">>, "srt")>> >>

\* the subsequences of s
RECURSIVE SubSeqs(_)
SubSeqs(s) ==
    IF s = <<>> THEN {<<>>}
    ELSE LET rest == SubSeqs(Tail(s))
         IN  rest \cup {<<Head(s)>> \o r : r \in rest}

\* the trees holding some of MediaFiles in directory d, each .mp3 with one of
\* the given sidecars
MediaTrees(sidecars) ==
    UNION {
        {[dirs  |-> {<<>>, <<DirD>>},
          files |-> fl,
          side  |-> sd] :
            sd \in [{f \in Range(fl) : GlobMatch(Name(f), "mp3")} -> sidecars]} :
        fl \in SubSeqs(MediaFiles)}

PlanSidecars ==
    { Missing,
      Unreadable,
      SidecarText(<<OtherLine>>),
      SidecarText(<<UidLine(<<>>)>>),
      SidecarText(<<OtherLine, UidLine(Uid1)>>),
      SidecarText(<<UidLine(Uid2), UidLine(Uid1)>>) }

RunSidecars ==
    { Missing,
      SidecarText(<<OtherLine, UidLine(Uid1)>>),
      SidecarText(<<UidLine(Uid2), UidLine(Uid1)>>) }

\* the batches of at most n references of one kind
RefLists(kind, n) ==
    LET refs == IF kind = "MP3"
                THEN {AccentMp3, PlainMp3, AbcMp3} \X {Uid1, Uid2}
                ELSE {AccentSrt, PlainSrt} \X {None, Uid1}
    IN  UNION {[1..k -> refs] : k \in 0..n}

\* the scene texts of a run
SceneTexts ==
    { \* one renamed audio file, its id used further down
      << Tag(AudioStream, AccentMp3, Uid1), Use(Uid1) >>,
      \* two audio files
      << Tag(AudioStream, PlainMp3, Uid1), Tag(AudioStream, AbcMp3, Uid2),
         Use(Uid1), Use(Uid2) >>,
      \* a renamed subtitle as a bare assignment and as a tag
      << Bare(AccentSrt), Tag(<<"Resource">>, AccentSrt, Uid1), Use(Uid1) >>,
      \* a subtitle under its present name, as a tag and as a bare assignment
      << Tag(<<"Resource">>, PlainSrt, Uid1), Bare(PlainSrt) >>,
      \* one audio and one subtitle reference
      << Tag(AudioStream, AccentMp3, Uid1), Bare(AccentSrt) >>,
      \* no reference at all
      << Use(Uid1) >> }

-----------------------------------------------------------------------------
(* The resolver on its own: find_renamed_file applied to one reference     *)
(* path in one project tree.                                               *)

ResolveFiles ==
    TreeFiles({"mp3"}) \cup {Append(d, FileName(<<"a", "b">>, "srt")) : d \in TreeDirs \cup {<<>>}}

ResolveQueries ==
    {[path |-> abs_to_res(Append(d, FileName(s, x))), ext |-> x] :
        d \in TreeDirs \cup {<<>>},
        s \in {<<"aacute", "b">>, <<"a", "b">>},
        x \in {"mp3", "srt"}}

\* the values of the variables a specification does not use
NormIdle ==
    /\ given_name = <<>>
    /\ normalized = <<>>

WatchIdle ==
    /\ pending_files = {}
    /\ lock = <<>>
    /\ timer = 0
    /\ timers = <<>>
    /\ callers = <<>>
    /\ reported = {}
    /\ handed = <<>>

ResolveIdle ==
    /\ original_res_path = None
    /\ glob_ext = "mp3"
    /\ found = NoPath

PlanIdle ==
    /\ matches = <<>>
    /\ label = "MP3"

RunIdle ==
    /\ tscn = <<>>
    /\ readable = <<>>
    /\ idx = 0
    /\ pc = "idle"
    /\ content = <<>>
    /\ new_content = <<>>
    /\ file_changed = FALSE
    /\ mp3_matches = <<>>
    /\ srt_matches = <<>>
    /\ total_replacements = 0
    /\ exit_code = -1
    /\ writes = <<>>
    /\ original = <<>>
    /\ answers = <<>>
    /\ offered = <<>>

InitResolve ==
    /\ NormIdle
    /\ WatchIdle
    /\ fs \in Trees(ResolveFiles, MaxFiles)
    /\ \E q \in ResolveQueries :
          /\ original_res_path = q.path
          /\ glob_ext = q.ext
    /\ found = NoPath
    /\ phase = "call"
    /\ pending = <<>>
    /\ actionable = <<>>
    /\ PlanIdle
    /\ RunIdle

Resolve ==
    /\ phase = "call"
    /\ found' = find_renamed_file(original_res_path, fs, glob_ext)
    /\ phase' = "returned"
    /\ UNCHANGED <<fs, normVars, watchVars, original_res_path, glob_ext,
                   planVars, pending, actionable, runVars>>

NextResolve == Resolve

SpecResolve == InitResolve /\ [][NextResolve]_vars

-----------------------------------------------------------------------------
(* The planner on its own: collect_*_changes applied to one batch of       *)
(* references, then the actionable subset of preview_and_confirm.          *)

InitPlan ==
    /\ NormIdle
    /\ WatchIdle
    /\ fs \in MediaTrees(PlanSidecars)
    /\ label \in {"MP3", "SRT"}
    /\ matches \in RefLists(label, MaxRefs)
    /\ pending = <<>>
    /\ actionable = <<>>
    /\ phase = "collect"
    /\ ResolveIdle
    /\ RunIdle

PlanMp3 ==
    /\ phase = "collect"
    /\ label = "MP3"
    /\ pending' = collect_mp3_changes(matches, fs)
    /\ phase' = "preview"
    /\ UNCHANGED <<fs, normVars, watchVars, resolveVars, planVars, actionable,
                   runVars>>

PlanSrt ==
    /\ phase = "collect"
    /\ label = "SRT"
    /\ pending' = collect_srt_changes(matches, fs)
    /\ phase' = "preview"
    /\ UNCHANGED <<fs, normVars, watchVars, resolveVars, planVars, actionable,
                   runVars>>

Preview ==
    /\ phase = "preview"
    /\ actionable' = Actionable(pending)
    /\ phase' = "previewed"
    /\ UNCHANGED <<fs, normVars, watchVars,
                   resolveVars, planVars, pending, runVars>>

NextPlan == PlanMp3 \/ PlanSrt \/ Preview

SpecPlan == InitPlan /\ [][NextPlan]_vars

-----------------------------------------------------------------------------
(* main: the run over the scene files.                                     *)

NoAnswers == [MP3 |-> "none", SRT |-> "none"]

NoOffers == [MP3 |-> <<>>, SRT |-> <<>>]

\* a scene file of the run: unreadable, or readable with one of the texts
SceneChoices ==
    {[readable |-> TRUE, text |-> t] : t \in SceneTexts}
        \cup {[readable |-> FALSE, text |-> <<>>]}

Init ==
    /\ NormIdle
    /\ WatchIdle
    /\ fs \in MediaTrees(RunSidecars)
    /\ \E scenes \in [1..NScenes -> SceneChoices] :
          /\ tscn = [i \in 1..NScenes |-> scenes[i].text]
          /\ original = [i \in 1..NScenes |-> scenes[i].text]
          /\ readable = [i \in 1..NScenes |-> scenes[i].readable]
    /\ idx = 1
    /\ pc = "loop"
    /\ content = <<>>
    /\ new_content = <<>>
    /\ file_changed = FALSE
    /\ mp3_matches = <<>>
    /\ srt_matches = <<>>
    /\ pending = <<>>
    /\ actionable = <<>>
    /\ total_replacements = 0
    /\ exit_code = -1
    /\ writes = [i \in 1..NScenes |-> 0]
    /\ answers = [i \in 1..NScenes |-> NoAnswers]
    /\ offered = [i \in 1..NScenes |-> NoOffers]
    /\ phase = "idle"
    /\ ResolveIdle
    /\ PlanIdle

history == <<writes, original, answers, offered>>

\* a variant in which a scene file that cannot be read ends the run
ReadSceneStopsOnError ==
    /\ pc = "loop"
    /\ idx <= NScenes
    /\ IF ~readable[idx]
       THEN /\ pc' = "aborted"
            /\ exit_code' = 1
            /\ UNCHANGED <<idx, content, new_content, file_changed,
                           mp3_matches, srt_matches>>
       ELSE /\ content' = tscn[idx]
            /\ mp3_matches' = Mp3Findall(tscn[idx])
            /\ srt_matches' = SrtMatches(tscn[idx])
            /\ UNCHANGED exit_code
            /\ IF mp3_matches' = <<>> /\ srt_matches' = <<>>
               THEN /\ idx' = idx + 1
                    /\ UNCHANGED <<pc, new_content, file_changed>>
               ELSE /\ new_content' = tscn[idx]
                    /\ file_changed' = FALSE
                    /\ pc' = "mp3"
                    /\ UNCHANGED idx
    /\ UNCHANGED <<fs, normVars, watchVars,
                   resolveVars, planVars, phase, pending, actionable,
                   tscn, readable, total_replacements, history>>

\* lines 277-316: read the next scene file and extract its references; an
\* unreadable file and a file without references are passed over
ReadScene ==
    /\ pc = "loop"
    /\ idx <= NScenes
    /\ IF ~readable[idx]
       THEN /\ idx' = idx + 1
            /\ UNCHANGED <<pc, content, new_content, file_changed,
                           mp3_matches, srt_matches>>
       ELSE /\ content' = tscn[idx]
            /\ mp3_matches' = Mp3Findall(tscn[idx])
            /\ srt_matches' = SrtMatches(tscn[idx])
            /\ IF mp3_matches' = <<>> /\ srt_matches' = <<>>
               THEN /\ idx' = idx + 1
                    /\ UNCHANGED <<pc, new_content, file_changed>>
               ELSE /\ new_content' = tscn[idx]
                    /\ file_changed' = FALSE
                    /\ pc' = "mp3"
                    /\ UNCHANGED idx
    /\ UNCHANGED <<fs, normVars, watchVars,
                   resolveVars, planVars, phase, pending, actionable,
                   tscn, readable, total_replacements, exit_code, history>>

\* lines 343-344: the loop is over, the summary is printed
Finish ==
    /\ pc = "loop"
    /\ idx > NScenes
    /\ pc' = "done"
    /\ exit_code' = 0
    /\ UNCHANGED <<fs, normVars, watchVars,
                   resolveVars, planVars, phase, pending, actionable,
                   tscn, readable, idx, content, new_content, file_changed,
                   mp3_matches, srt_matches, total_replacements, history>>

\* a batch up to the prompt of preview_and_confirm: the records are planned,
\* the actionable subset is taken; without references or without actionable
\* records the run goes on unprompted
Batch(kind, refs, here, prompt, next) ==
    /\ pc = here
    /\ IF refs = <<>>
       THEN /\ pc' = next
            /\ UNCHANGED <<pending, actionable, offered>>
       ELSE /\ pending' = IF kind = "MP3" THEN collect_mp3_changes(refs, fs)
                                           ELSE collect_srt_changes(refs, fs)
            /\ actionable' = Actionable(pending')
            /\ IF actionable' = <<>>
               THEN pc' = next /\ UNCHANGED offered
               ELSE /\ pc' = prompt
                    /\ offered' = [offered EXCEPT ![idx][kind] = actionable']
    /\ UNCHANGED <<fs, normVars, watchVars,
                   resolveVars, planVars, phase, tscn, readable, idx,
                   content, new_content, file_changed, mp3_matches,
                   srt_matches, total_replacements, exit_code, writes, original,
                   answers>>

BatchMp3 == Batch("MP3", mp3_matches, "mp3", "mp3_prompt", "srt")

BatchSrt == Batch("SRT", srt_matches, "srt", "srt_prompt", "save")

\* a variant of the prompt that hands back the actionable records on n too
ConfirmAlways(acts, answer) == acts

\* lines 229-233: what preview_and_confirm returns for the answer y or n
Confirm(acts, answer) == IF answer = "n" THEN <<>> ELSE acts

\* a variant in which the answer q does not end the run
AfterAnswerNoExit(answer, next) == next

\* lines 225-227: sys.exit(0) on q, else the run goes on
AfterAnswer(answer, next) == IF answer = "q" THEN "aborted" ELSE next

\* lines 322-325 and 331-334: what main does with the returned records
BatchResult(text, changed, total, acts, has_uid) ==
    IF acts # <<>>
    THEN [text    |-> apply_changes(text, acts, has_uid),
          changed |-> TRUE,
          total   |-> total + Len(acts)]
    ELSE [text |-> text, changed |-> changed, total |-> total]

\* the answer to the prompt (input is asked again until it is y, n or q) and
\* what main does with it
Answer(kind, answer, here, next) ==
    /\ pc = here
    /\ answers' = [answers EXCEPT ![idx][kind] = answer]
    /\ pc' = AfterAnswer(answer, next)
    /\ IF pc' = "aborted"
       THEN /\ exit_code' = 0
            /\ UNCHANGED <<new_content, file_changed, total_replacements>>
       ELSE LET r == BatchResult(new_content, file_changed, total_replacements,
                                 Confirm(actionable, answer), kind = "MP3")
            IN  /\ new_content' = r.text
                /\ file_changed' = r.changed
                /\ total_replacements' = r.total
                /\ UNCHANGED exit_code
    /\ UNCHANGED <<fs, normVars, watchVars,
                   resolveVars, planVars, phase, pending, actionable,
                   tscn, readable, idx, content, mp3_matches, srt_matches,
                   writes, original, offered>>

AnswerMp3 == \E answer \in {"y", "n", "q"} : Answer("MP3", answer, "mp3_prompt", "srt")

AnswerSrt == \E answer \in {"y", "n", "q"} : Answer("SRT", answer, "srt_prompt", "save")

\* a variant that writes the file whether or not it changed
SaveAlways ==
    /\ pc = "save"
    /\ tscn' = [tscn EXCEPT ![idx] = new_content]
    /\ writes' = [writes EXCEPT ![idx] = @ + 1]
    /\ idx' = idx + 1
    /\ pc' = "loop"
    /\ UNCHANGED <<fs, normVars, watchVars,
                   resolveVars, planVars, phase, pending, actionable,
                   readable, content, new_content, file_changed, mp3_matches,
                   srt_matches, total_replacements, exit_code, original,
                   answers, offered>>

\* lines 337-341: write the file back if it changed, then go to the next one
Save ==
    /\ pc = "save"
    /\ IF file_changed
       THEN /\ tscn' = [tscn EXCEPT ![idx] = new_content]
            /\ writes' = [writes EXCEPT ![idx] = @ + 1]
       ELSE UNCHANGED <<tscn, writes>>
    /\ idx' = idx + 1
    /\ pc' = "loop"
    /\ UNCHANGED <<fs, normVars, watchVars,
                   resolveVars, planVars, phase, pending, actionable,
                   readable, content, new_content, file_changed, mp3_matches,
                   srt_matches, total_replacements, exit_code, original,
                   answers, offered>>

Next == ReadScene \/ BatchMp3 \/ AnswerMp3 \/ BatchSrt \/ AnswerSrt \/ Save \/ Finish

Spec == Init /\ [][Next]_vars

\* the score the fuzzy tier gives file f for the reference path
ScoreOf(path, f) ==
    fuzzy_score(Lower(normalize_filename(Stem(Name(Parts(StripRes(path)))))),
                Lower(Stem(Name(f))))

\* the file at the exact location of the reference, and the file carrying
\* the normalized name beside it
ExactFiles == {f \in Range(fs.files) : abs_to_res(f) = original_res_path}

NormalizedFiles ==
    {f \in Range(fs.files) :
        /\ Parent(f) = Parent(Parts(StripRes(original_res_path)))
        /\ Name(f) = normalize_filename(Name(Parts(StripRes(original_res_path))))}

\* C5: once find_renamed_file has returned, a file at the exact location of
\* the reference is the result, and when there is none a file with the
\* normalized name in the same directory is the result, whatever the other
\* files of the tree score.
C5_TierOrdering ==
    phase = "returned" =>
        /\ \A f \in ExactFiles : found = f
        /\ ExactFiles = {} => \A f \in NormalizedFiles : found = f

\* C5 happens: the exact file is returned although the file with the
\* normalized name exists too and scores higher than the exact file does.
C5_Witness ==
    /\ phase = "returned"
    /\ found \in ExactFiles
    /\ \E g \in NormalizedFiles :
          /\ g # found
          /\ ScoreGT(ScoreOf(original_res_path, g), ScoreOf(original_res_path, found))
          /\ ScoreGE(ScoreOf(original_res_path, g), Threshold)

\* the result came from the fuzzy tier: neither the exact nor the normalized
\* location exists
ThroughFuzzy ==
    /\ ~Exists(fs, Parts(StripRes(original_res_path)))
    /\ ~Exists(fs, NormalizedCandidate(Parts(StripRes(original_res_path))))

\* C6: a file returned through the fuzzy tier scores at least 0.70, no
\* candidate of the search scope scores higher, every candidate listed
\* before it scores lower; when no candidate reaches 0.70 the result is absent.
C6_FuzzyThreshold ==
    (phase = "returned" /\ ThroughFuzzy) =>
        LET cands == FuzzyCandidates(fs, Parts(StripRes(original_res_path)), glob_ext)
            sc(i) == ScoreOf(original_res_path, cands[i])
        IN  IF \E i \in 1..Len(cands) : ScoreGE(sc(i), Threshold)
            THEN \E i \in 1..Len(cands) :
                    /\ found = cands[i]
                    /\ ScoreGE(sc(i), Threshold)
                    /\ \A j \in 1..Len(cands) : ~ScoreGT(sc(j), sc(i))
                    /\ \A j \in 1..(i - 1) : ScoreGT(sc(i), sc(j))
            ELSE found = NoPath

\* C6 happens: the fuzzy tier returns the first of two candidates that tie at
\* the highest score.
C6_Witness ==
    /\ phase = "returned"
    /\ ThroughFuzzy
    /\ found # NoPath
    /\ \E g \in Range(FuzzyCandidates(fs, Parts(StripRes(original_res_path)), glob_ext)) :
          /\ g # found
          /\ ScoreOf(original_res_path, g) = ScoreOf(original_res_path, found)

\* C6, the rejection: candidates exist and the best of them is below 0.70.
C6_WitnessRejected ==
    /\ phase = "returned"
    /\ ThroughFuzzy
    /\ found = NoPath
    /\ FuzzyCandidates(fs, Parts(StripRes(original_res_path)), glob_ext) # <<>>

-----------------------------------------------------------------------------
(* Properties of the planner and of the review gate (SpecPlan).            *)

Planned == phase \in {"preview", "previewed"}

\* C1: a record of the batch is in the actionable subset exactly when its
\* resolved path is present and either the path differs from the original or
\* the original id is present and differs from the resolved id: an unresolved
\* record and a record with identical path and id are out, a record with a
\* changed path or a changed id is in, and the subset keeps the batch's order.
C1_ActionableIff ==
    phase = "previewed" =>
        /\ \A i \in 1..Len(pending) :
              LET e        == pending[i]
                  resolved == e.new_res_path # None
                  pathDiff == e.new_res_path # e.old_path
                  idDiff   == e.old_uid # None /\ e.old_uid # e.new_uid
              IN  /\ ~resolved => e \notin Range(actionable)
                  /\ (resolved /\ ~pathDiff /\ ~idDiff) => e \notin Range(actionable)
                  /\ (resolved /\ pathDiff) => e \in Range(actionable)
                  /\ (resolved /\ idDiff) => e \in Range(actionable)
        /\ \A k \in 1..Len(actionable) : actionable[k] \in Range(pending)
        /\ Len(actionable) <= Len(pending)

\* C1 happens: one batch holds a record whose id alone changed, which is
\* actionable, and an unresolved or unchanged record, which is not.
C1_Witness ==
    /\ phase = "previewed"
    /\ \E i, j \in 1..Len(pending) :
          /\ pending[i].new_res_path = pending[i].old_path
          /\ pending[i].old_uid # pending[i].new_uid
          /\ pending[i] \in Range(actionable)
          /\ pending[j].new_res_path = pending[j].old_path
          /\ pending[j].old_uid = pending[j].new_uid
          /\ pending[j] \notin Range(actionable)

\* the file a record resolved to
ResolvedFile(e) == CHOOSE f \in Range(fs.files) : abs_to_res(f) = e.new_res_path

\* the sidecar holds a line  uid = "<token>"  and tok is the token of the
\* first such line
FreshUid(sidecar, tok) ==
    /\ sidecar.state = "text"
    /\ \E k \in 1..Len(sidecar.lines) :
          /\ sidecar.lines[k] = UidLine(tok)
          /\ tok # <<>>
          /\ \A j \in 1..(k - 1) :
                sidecar.lines[j].key # "uid" \/ sidecar.lines[j].val = <<>>

HasUidLine(sidecar) ==
    /\ sidecar.state = "text"
    /\ \E k \in 1..Len(sidecar.lines) :
          sidecar.lines[k].key = "uid" /\ sidecar.lines[k].val # <<>>

SidecarWarned(e) == WarnNoImport \in Range(e.warn) \/ WarnNoUid \in Range(e.warn)

\* C7: every reference of an audio batch gets its record, in order; a
\* resolved record carries the uid of the first uid line of the sidecar of
\* the resolved file when there is one, and otherwise (sidecar missing,
\* unreadable or without a uid line) the original id and a sidecar warning.
C7_SidecarUid ==
    (Planned /\ label = "MP3") =>
        /\ Len(pending) = Len(matches)
        /\ \A i \in 1..Len(pending) :
              LET e == pending[i]
              IN  /\ e.old_path = matches[i][1]
                  /\ e.old_uid = matches[i][2]
                  /\ e.new_res_path # None =>
                        LET sidecar == SidecarOf(fs, ResolvedFile(e))
                        IN  IF HasUidLine(sidecar)
                            THEN FreshUid(sidecar, e.new_uid) /\ ~SidecarWarned(e)
                            ELSE e.new_uid = e.old_uid /\ SidecarWarned(e)

\* C7 happens: in one batch a record falls back to the original id because
\* the sidecar is unreadable, and the next record carries a fresh uid that
\* differs from the original id.
C7_Witness ==
    /\ Planned
    /\ label = "MP3"
    /\ \E i, j \in 1..Len(pending) :
          /\ i < j
          /\ pending[i].new_res_path # None
          /\ SidecarOf(fs, ResolvedFile(pending[i])).state = "unreadable"
          /\ pending[i].new_uid = pending[i].old_uid
          /\ pending[j].new_res_path # None
          /\ HasUidLine(SidecarOf(fs, ResolvedFile(pending[j])))
          /\ pending[j].new_uid # pending[j].old_uid

\* C9: a record without a resolved path, of either kind, has no resolved id
\* and carries the not-found warning.
C9_UnresolvedHasNoId ==
    Planned =>
        \A i \in 1..Len(pending) :
            pending[i].new_res_path = None =>
                /\ pending[i].new_uid = None
                /\ WarnNotFound \in Range(pending[i].warn)

\* C9 happens: a subtitle reference that has an id is not found on disk.
C9_Witness ==
    /\ Planned
    /\ label = "SRT"
    /\ \E i \in 1..Len(pending) :
          /\ pending[i].new_res_path = None
          /\ pending[i].old_uid # None

-----------------------------------------------------------------------------
(* Properties of the run (Spec).                                           *)

Kinds == {"MP3", "SRT"}

Accepted(i) == \E k \in Kinds : answers[i][k] = "y" /\ offered[i][k] # <<>>

\* the text of file i as its accepted audio batch left it
AfterMp3(i) ==
    IF answers[i].MP3 = "y"
    THEN apply_changes(original[i], offered[i].MP3, TRUE)
    ELSE original[i]

\* the text of file i as its accepted batches left it
AfterSrt(i) ==
    IF answers[i].SRT = "y"
    THEN apply_changes(AfterMp3(i), offered[i].SRT, FALSE)
    ELSE AfterMp3(i)

\* C2: no scene file is written more than once; a written file had a batch
\* with actionable records that the operator answered y to; an unwritten
\* file holds the text it had when the run began.
C2_WriteOnlyIfAccepted ==
    pc # "idle" =>
        \A i \in 1..NScenes :
            /\ writes[i] <= 1
            /\ writes[i] = 1 => Accepted(i)
            /\ writes[i] = 0 => tscn[i] = original[i]

\* C2 happens: the run ends with one file written after an accepted batch
\* and another left untouched although it was prompted for.
C2_Witness ==
    /\ pc = "done"
    /\ \E i, j \in 1..NScenes :
          /\ writes[i] = 1
          /\ tscn[i] # original[i]
          /\ writes[j] = 0
          /\ \E k \in Kinds : answers[j][k] = "n"

\* C3: once q is answered at a prompt of file i the run is over with exit
\* status 0 and nothing more can happen: file i is not written, no later
\* prompt of file i and no later file is reached, and every earlier file
\* holds what was saved for it, or its first text when nothing was saved.
C3_AbortIsImmediateAndTotal ==
    \A i \in 1..Len(answers) : \A k \in Kinds :
        answers[i][k] = "q" =>
            /\ pc = "aborted"
            /\ exit_code = 0
            /\ ~ENABLED Next
            /\ idx = i
            /\ writes[i] = 0
            /\ tscn[i] = original[i]
            /\ k = "MP3" => answers[i].SRT = "none" /\ offered[i].SRT = <<>>
            /\ \A j \in (i + 1)..NScenes :
                  /\ writes[j] = 0
                  /\ tscn[j] = original[j]
                  /\ answers[j] = NoAnswers
                  /\ offered[j] = NoOffers
            /\ \A j \in 1..(i - 1) :
                  tscn[j] = IF writes[j] = 1 THEN AfterSrt(j) ELSE original[j]

\* C3 happens: q is answered at the subtitle prompt of the second file after
\* its audio batch was accepted and applied in memory, the first file having
\* been saved.
C3_Witness ==
    /\ pc = "aborted"
    /\ idx = 2
    /\ writes[1] = 1
    /\ tscn[1] # original[1]
    /\ answers[2].MP3 = "y"
    /\ answers[2].SRT = "q"
    /\ file_changed
    /\ new_content # tscn[2]

\* the subtitle records main plans for a text
SrtPlan(text) == collect_srt_changes(SrtMatches(text), fs)

Mp3Plan(text) == collect_mp3_changes(Mp3Findall(text), fs)

\* C4: an audio batch answered n leaves the text in memory as it was read and
\* the file unmarked; a subtitle batch answered n leaves the text as the
\* audio batch left it; after a skipped audio batch the subtitle batch of the
\* file is planned and prompted for as ever and, when accepted, applied and
\* saved; and whatever was skipped, every readable file that has actionable
\* audio records is prompted for them.
C4_SkipDiscardsOnlyThatBatch ==
    /\ (pc \in {"srt", "srt_prompt", "save"} /\ answers[idx].MP3 = "n") =>
          /\ pc = "srt" => new_content = content /\ ~file_changed
          /\ pc = "srt_prompt" => offered[idx].SRT = Actionable(SrtPlan(content))
          /\ pc = "save" =>
                /\ Actionable(SrtPlan(content)) # <<>> => answers[idx].SRT \in {"y", "n"}
                /\ answers[idx].SRT = "y" =>
                      /\ file_changed
                      /\ new_content =
                            apply_changes(content, Actionable(SrtPlan(content)), FALSE)
    /\ (pc = "save" /\ answers[idx].SRT = "n") =>
          /\ new_content = AfterMp3(idx)
          /\ file_changed = (answers[idx].MP3 = "y")
    /\ pc \in {"loop", "done"} =>
          \A i \in 1..(idx - 1) :
              /\ (answers[i].MP3 = "n" /\ answers[i].SRT = "y") =>
                    writes[i] = 1 /\ tscn[i] = AfterSrt(i)
              /\ (answers[i].MP3 = "y" /\ answers[i].SRT = "n") =>
                    writes[i] = 1 /\ tscn[i] = AfterSrt(i)
              /\ (readable[i] /\ Actionable(Mp3Plan(original[i])) # <<>>) =>
                    answers[i].MP3 \in {"y", "n"}

\* C4 happens: the audio batch of the first file is skipped, its subtitle
\* batch is accepted and saved, and the audio batch of the second file is
\* accepted and saved.
C4_Witness ==
    /\ pc = "done"
    /\ answers[1].MP3 = "n"
    /\ answers[1].SRT = "y"
    /\ writes[1] = 1
    /\ tscn[1] # original[1]
    /\ answers[2].MP3 = "y"
    /\ writes[2] = 1

\* the quoted strings of the text
Quoted(text) ==
    UNION {{text[k].type, text[k].path, text[k].id} : k \in 1..Len(text)} \ {None}

\* C8: after an accepted audio batch has been applied, no quoted occurrence
\* of a changed original path or of a changed original id is left in the
\* text, and every tag that held an actionable record's original path and id
\* holds its resolved path and its resolved id.
C8_BatchLeavesResolvedPairs ==
    (pc = "srt" /\ answers[idx].MP3 = "y") =>
        \A n \in 1..Len(offered[idx].MP3) :
            LET e == offered[idx].MP3[n]
            IN  /\ e.old_path # e.new_res_path => e.old_path \notin Quoted(new_content)
                /\ e.old_uid # e.new_uid => e.old_uid \notin Quoted(new_content)
                /\ \A k \in 1..Len(content) :
                      (/\ content[k].k = "tag"
                       /\ content[k].path = e.old_path
                       /\ content[k].id = e.old_uid) =>
                          /\ new_content[k].path = e.new_res_path
                          /\ new_content[k].id = e.new_uid

\* the subtitle batch of the current file has been planned
SrtPlanned == pc \in {"srt_prompt", "save"} /\ srt_matches # <<>>

\* C10 as stated: every subtitle record has the original id as its resolved id.
C10_SubtitleIdAlwaysKept ==
    SrtPlanned =>
        \A n \in 1..Len(pending) : pending[n].new_uid = pending[n].old_uid

\* C10, amended: every resolved subtitle record has the original id as its
\* resolved id, present or not; a subtitle record whose resolved path is its
\* original path is not actionable; the subtitle batch changes no id of the
\* text; and when no subtitle path changed there is no prompt, the text in
\* memory stays as the audio batch left it and the file is marked changed
\* only by an accepted audio batch.
C10_SubtitleIdKept ==
    SrtPlanned =>
        /\ pending = SrtPlan(content)
        /\ \A n \in 1..Len(pending) :
              /\ pending[n].new_res_path # None => pending[n].new_uid = pending[n].old_uid
              /\ pending[n].new_res_path = pending[n].old_path =>
                    pending[n] \notin Range(actionable)
        /\ pc = "save" =>
              /\ \A k \in 1..Len(new_content) : new_content[k].id = AfterMp3(idx)[k].id
              /\ (\A n \in 1..Len(pending) :
                    pending[n].new_res_path \in {None, pending[n].old_path}) =>
                    /\ answers[idx].SRT = "none"
                    /\ new_content = AfterMp3(idx)
                    /\ file_changed = (answers[idx].MP3 = "y")

\* C10 happens: a file whose subtitle references, one of them a tag with an
\* id, all resolve to their own paths reaches the save step unprompted,
\* unchanged and unmarked.
C10_Witness ==
    /\ pc = "save"
    /\ srt_matches # <<>>
    /\ \E n \in 1..Len(pending) : pending[n].old_uid # None
    /\ \A n \in 1..Len(pending) : pending[n].new_res_path = pending[n].old_path
    /\ answers[idx].SRT = "none"
    /\ new_content = content
    /\ ~file_changed

-----------------------------------------------------------------------------
(* apply_changes on the characters of the text.                            *)
(*                                                                         *)
(* Here the text is the flat sequence of its characters, the quote and the *)
(* backslash among them, and str.replace is carried out position by        *)
(* position.  "path=", "id=", "type=" and the other fixed pieces of a line  *)
(* are one unit each.                                                      *)

\* the most lines a generated text holds after its ext_resource tag
MaxLines == 2

Quote == "quote"

Backslash == "backslash"

\* s[i..] with every non-overlapping occurrence of old, found from the left,
\* replaced by new
RECURSIVE ReplaceFrom(_, _, _, _)
ReplaceFrom(s, old, new, i) ==
    IF i > Len(s) THEN <<>>
    ELSE IF i + Len(old) - 1 <= Len(s) /\ SubSeq(s, i, i + Len(old) - 1) = old
    THEN new \o ReplaceFrom(s, old, new, i + Len(old))
    ELSE <<s[i]>> \o ReplaceFrom(s, old, new, i + 1)

\* str.replace(old, new), old not empty
StrReplace(s, old, new) == ReplaceFrom(s, old, new, 1)

\* f'"{s}"'
InQuotes(s) == <<Quote>> \o s \o <<Quote>>

\* f'path="{s}"'
PathAttr(s) == <<"path=">> \o InQuotes(s)

\* the body of the loop of apply_changes
ApplyEntryText(text, e, has_uid) ==
    LET c1 == IF e.old_path # e.new_res_path
              THEN StrReplace(StrReplace(text, PathAttr(e.old_path),
                                         PathAttr(e.new_res_path)),
                              InQuotes(e.old_path), InQuotes(e.new_res_path))
              ELSE text
    IN  IF has_uid /\ e.old_uid # None /\ e.old_uid # e.new_uid
        THEN StrReplace(c1, InQuotes(e.old_uid), InQuotes(e.new_uid))
        ELSE c1

RECURSIVE apply_changes_text(_, _, _)
apply_changes_text(text, accepted, has_uid) ==
    IF accepted = <<>> THEN text
    ELSE apply_changes_text(ApplyEntryText(text, Head(accepted), has_uid),
                            Tail(accepted), has_uid)

\* the lines of a scene file
TagLine(type, path, id) ==
    <<"[ext_resource", "sp", "type=">> \o InQuotes(type) \o <<"sp">>
        \o PathAttr(path) \o <<"sp", "id=">> \o InQuotes(id) \o <<"]", "nl">>

PropLine(value) == <<"name", "sp", "=", "sp">> \o InQuotes(value) \o <<"nl">>

UseLine(id) == <<"ExtResource(">> \o InQuotes(id) \o <<")", "nl">>

\* a quote inside a string value is written \"
Escaped == <<Backslash, Quote>>

\* string values that hold v: v itself, v as a prefix, as a suffix, in the
\* middle, v in escaped quotes, and v after one escaped quote
Around(v) ==
    { v,
      v \o <<".", "b">>,
      <<"b", "-">> \o v,
      <<"b", "-">> \o v \o <<".", "b">>,
      <<"b">> \o Escaped \o v \o Escaped,
      <<"b">> \o Escaped \o v }

\* the texts the rewriter is applied to: the tag of the reference, then at
\* most MaxLines lines whose values hold the path or the id of the reference
RewriteTexts(path, id) ==
    LET lines == {PropLine(v) : v \in Around(path)}
                    \cup {UseLine(v) : v \in Around(id)}
    IN  {TagLine(AudioStream, path, id) \o Concat(ls) :
            ls \in UNION {[1..k -> lines] : k \in 0..MaxLines}}

\* the batches of the rewriter: a renamed audio file whose uid changed or
\* stayed, an audio file whose uid alone changed
RewriteBatches ==
    { << Entry(AccentMp3, Uid1, PlainMp3, Uid2, <<>>) >>,
      << Entry(AccentMp3, Uid1, PlainMp3, Uid1, <<WarnNoImport>>) >>,
      << Entry(AccentMp3, Uid1, AccentMp3, Uid2, <<>>) >> }

InitRewrite ==
    /\ NormIdle
    /\ WatchIdle
    /\ actionable \in RewriteBatches
    /\ label \in {"MP3", "SRT"}
    /\ content \in RewriteTexts(AccentMp3, Uid1)
    /\ new_content = content
    /\ phase = "apply"
    /\ fs = [dirs |-> {<<>>}, files |-> <<>>, side |-> NoSidecars]
    /\ matches = <<>>
    /\ pending = <<>>
    /\ tscn = <<>>
    /\ readable = <<>>
    /\ idx = 0
    /\ pc = "idle"
    /\ file_changed = FALSE
    /\ mp3_matches = <<>>
    /\ srt_matches = <<>>
    /\ total_replacements = 0
    /\ exit_code = -1
    /\ writes = <<>>
    /\ original = <<>>
    /\ answers = <<>>
    /\ offered = <<>>
    /\ ResolveIdle

\* lines 322-325, 331-334: new_content = apply_changes(new_content, ...)
Rewrite ==
    /\ phase = "apply"
    /\ new_content' = apply_changes_text(new_content, actionable, label = "MP3")
    /\ file_changed' = TRUE
    /\ phase' = "applied"
    /\ UNCHANGED <<fs, normVars, watchVars,
                   resolveVars, planVars, pending, actionable, tscn,
                   readable, idx, pc, content, mp3_matches, srt_matches,
                   total_replacements, exit_code, history>>

NextRewrite == Rewrite

SpecRewrite == InitRewrite /\ [][NextRewrite]_vars

\* the string values of a text, in order: a value runs from a quote to the
\* next quote that no backslash escapes
RECURSIVE StringsFrom(_, _, _, _)
StringsFrom(text, i, inside, cur) ==
    IF i > Len(text) THEN <<>>
    ELSE IF ~inside
    THEN StringsFrom(text, i + 1, text[i] = Quote, <<>>)
    ELSE IF text[i] = Backslash /\ i < Len(text)
    THEN StringsFrom(text, i + 2, TRUE, cur \o <<text[i], text[i + 1]>>)
    ELSE IF text[i] = Quote
    THEN <<cur>> \o StringsFrom(text, i + 1, FALSE, <<>>)
    ELSE StringsFrom(text, i + 1, TRUE, Append(cur, text[i]))

Strings(text) == StringsFrom(text, 1, FALSE, <<>>)

\* the values a record changes, with what each becomes
Changes(e, has_uid) ==
    (IF e.old_path # e.new_res_path
     THEN {<<e.old_path, e.new_res_path>>} ELSE {})
        \cup (IF has_uid /\ e.old_uid # None /\ e.old_uid # e.new_uid
              THEN {<<e.old_uid, e.new_uid>>} ELSE {})

\* C11: after the record has been applied, every string value of the text
\* that is not exactly the record's original path or id is what it was, also
\* when the original path or id is a part of it, and every value that is
\* exactly the original is the resolved one.
C11_SubstringSafe ==
    phase = "applied" =>
        LET e      == actionable[1]
            ch     == Changes(e, label = "MP3")
            before == Strings(content)
            after  == Strings(new_content)
        IN  /\ Len(after) = Len(before)
            /\ \A k \in 1..Len(before) :
                  IF \E c \in ch : c[1] = before[k]
                  THEN \E c \in ch : c[1] = before[k] /\ after[k] = c[2]
                  ELSE after[k] = before[k]

-----------------------------------------------------------------------------
(* The normalizer on its own: normalize_filename applied to a name, then   *)
(* to its own result.                                                      *)

\* the most characters a generated name holds
MaxNameLen == 3

\* the characters of the generated names: plain and capital letters, table
\* characters (one of them a ligature), the space, the dot, and the
\* underscore, which is outside the whitelist
NameChars == {"a", "A", "aacute", "oelig", "sp", ".", "us"}

InitNormalize ==
    /\ given_name \in UNION {[1..k -> NameChars] : k \in 0..MaxNameLen}
    /\ normalized = <<>>
    /\ phase = "call"
    /\ fs = [dirs |-> {<<>>}, files |-> <<>>, side |-> NoSidecars]
    /\ pending = <<>>
    /\ actionable = <<>>
    /\ WatchIdle
    /\ ResolveIdle
    /\ PlanIdle
    /\ RunIdle

\* the first call
Normalize ==
    /\ phase = "call"
    /\ normalized' = <<normalize_filename(given_name)>>
    /\ phase' = "again"
    /\ UNCHANGED <<fs, given_name, watchVars, resolveVars, planVars, pending,
                   actionable, runVars>>

\* the call on the result of the first
NormalizeAgain ==
    /\ phase = "again"
    /\ normalized' = Append(normalized, normalize_filename(normalized[1]))
    /\ phase' = "returned"
    /\ UNCHANGED <<fs, given_name, watchVars, resolveVars, planVars, pending,
                   actionable, runVars>>

NextNormalize == Normalize \/ NormalizeAgain

SpecNormalize == InitNormalize /\ [][NextNormalize]_vars

\* C12: normalizing the result of the normalizer gives that result again,
\* and the result holds no character outside [A-Za-z0-9.-].
C12_NormalizerIdempotent ==
    /\ Len(normalized) >= 1 => Range(normalized[1]) \subseteq Whitelist
    /\ Len(normalized) = 2 => normalized[2] = normalized[1]

\* C12 happens: a name with a ligature, a space and an underscore has been
\* normalized twice, and the first call changed it.
C12_Witness ==
    /\ Len(normalized) = 2
    /\ {"oelig", "sp", "us"} \subseteq Range(given_name)
    /\ normalized[1] # given_name
    /\ normalized[1] # <<>>

-----------------------------------------------------------------------------
(* Properties of the loop over the scene files (Spec).                     *)

\* C13: a scene file that cannot be read is never prompted for and never
\* written, and the run never stops at it: only the answer q ends the run
\* early, the loop can always take its next file, and every readable file,
\* whatever came before it, has been extracted, planned, prompted for where
\* it had actionable records, and saved with the accepted changes when the
\* loop leaves it.
C13_UnreadableSkipped ==
    pc # "idle" =>
        /\ \A i \in 1..NScenes :
              ~readable[i] =>
                  /\ answers[i] = NoAnswers
                  /\ offered[i] = NoOffers
                  /\ writes[i] = 0
                  /\ tscn[i] = original[i]
                  /\ idx = i => pc = "loop"
        /\ pc = "aborted" =>
              \E i \in 1..NScenes : \E k \in Kinds : answers[i][k] = "q"
        /\ (pc = "loop" /\ idx <= NScenes) => ENABLED ReadScene
        /\ pc = "done" => idx = NScenes + 1 /\ exit_code = 0
        /\ pc \in {"loop", "done"} =>
              \A j \in {idx - 1} \cap (1..NScenes) :
                  readable[j] =>
                      /\ offered[j].MP3 = Actionable(Mp3Plan(original[j]))
                      /\ offered[j].MP3 # <<>> => answers[j].MP3 \in {"y", "n"}
                      /\ offered[j].SRT = Actionable(SrtPlan(original[j]))
                      /\ offered[j].SRT # <<>> => answers[j].SRT \in {"y", "n"}
                      /\ writes[j] = (IF Accepted(j) THEN 1 ELSE 0)
                      /\ Accepted(j) => tscn[j] = AfterSrt(j)

\* C13 happens: the first scene file cannot be read, and the run goes on to
\* the second, whose accepted changes are saved.
C13_Witness ==
    /\ pc = "done"
    /\ ~readable[1]
    /\ readable[2]
    /\ answers[2].MP3 = "y"
    /\ writes[2] = 1
    /\ tscn[2] # original[2]

-----------------------------------------------------------------------------
(* The scope of the fuzzy tier (SpecResolve).                              *)

\* the nearest directory above the reference that exists on disk, the
\* project root included
NearestAncestor(disk, parts) ==
    LET up == {i \in 0..(Len(parts) - 1) : IsDir(disk, SubSeq(parts, 1, i))}
    IN  SubSeq(parts, 1, CHOOSE i \in up : \A j \in up : j <= i)

\* the result of the fuzzy tier over the files below dir
FuzzyOver(disk, dir, parts, ext) ==
    LET best == BestOf(RGlob(disk, dir, ext), NormStem(parts),
                       [n |-> 0, d |-> 1], NoPath)
    IN  IF best.path # NoPath /\ ScoreGE(best.score, Threshold)
        THEN best.path ELSE NoPath

\* C14: when neither the exact nor the normalized location exists and the
\* parent directory of the reference does not exist, the result is that of
\* the fuzzy search over all files below the nearest existing directory
\* above the reference, which is the project root when no directory of the
\* path exists.
C14_FuzzyScope ==
    LET parts == Parts(StripRes(original_res_path))
    IN  (phase = "returned" /\ ThroughFuzzy /\ ~Exists(fs, Parent(parts))) =>
            found = FuzzyOver(fs, NearestAncestor(fs, parts), parts, glob_ext)

-----------------------------------------------------------------------------
(* The extraction on its own: the patterns of main applied to one text.    *)

\* the most items a generated text holds
MaxItems == 3

\* the items of the generated texts: subtitle tags with and without an id,
\* bare assignments of the same and of other paths, a bare assignment whose
\* value does not start with res://, an audio tag and a use of an id
ExtractItems ==
    { Tag(<<"Resource">>, AccentSrt, Uid1),
      Tag(<<"Resource">>, AccentSrt, None),
      Tag(<<"Resource">>, PlainSrt, Uid2),
      Bare(AccentSrt),
      Bare(PlainSrt),
      Bare(FileName(<<"a", "b">>, "srt")),
      Tag(AudioStream, AccentMp3, Uid1),
      Use(Uid1) }

InitExtract ==
    /\ content \in UNION {[1..k -> ExtractItems] : k \in 0..MaxItems}
    /\ mp3_matches = <<>>
    /\ srt_matches = <<>>
    /\ phase = "extract"
    /\ fs = [dirs |-> {<<>>}, files |-> <<>>, side |-> NoSidecars]
    /\ pending = <<>>
    /\ actionable = <<>>
    /\ tscn = <<>>
    /\ readable = <<>>
    /\ idx = 0
    /\ pc = "idle"
    /\ new_content = <<>>
    /\ file_changed = FALSE
    /\ total_replacements = 0
    /\ exit_code = -1
    /\ writes = <<>>
    /\ original = <<>>
    /\ answers = <<>>
    /\ offered = <<>>
    /\ NormIdle
    /\ WatchIdle
    /\ ResolveIdle
    /\ PlanIdle

\* lines 284-304
Extract ==
    /\ phase = "extract"
    /\ mp3_matches' = Mp3Findall(content)
    /\ srt_matches' = SrtMatches(content)
    /\ phase' = "extracted"
    /\ UNCHANGED <<fs, normVars, watchVars, resolveVars, planVars, pending,
                   actionable, tscn, readable, idx, pc, content, new_content,
                   file_changed, total_replacements, exit_code, history>>

NextExtract == Extract

SpecExtract == InitExtract /\ [][NextExtract]_vars

\* item it is a container tag with a subtitle path
IsSrtTag(it) == it.k = "tag" /\ EndsIn(it.path, "srt")

\* item it is a bare assignment of a res:// subtitle path
IsSrtBare(it) ==
    it.k = "bare" /\ EndsIn(it.path, "srt") /\ it.path[1] = "res://"

\* the reference item it stands for
RefOf(it) == <<it.path, IF it.k = "tag" THEN it.id ELSE None>>

\* where in the text a reference occurs first
FirstAt(text, ref) ==
    LET at == {k \in 1..Len(text) :
                  (IsSrtTag(text[k]) \/ IsSrtBare(text[k])) /\ RefOf(text[k]) = ref}
    IN  CHOOSE k \in at : \A j \in at : k <= j

\* the positions in S, ascending
RECURSIVE Ascending(_)
Ascending(S) ==
    IF S = {} THEN <<>>
    ELSE LET k == CHOOSE k \in S : \A j \in S : k <= j
         IN  <<k>> \o Ascending(S \ {k})

\* C15 as stated: of two extracted references the one that occurs first in
\* the text comes first in the extracted sequence.
C15_FirstOccurrenceOrder ==
    phase = "extracted" =>
        \A i, j \in 1..Len(srt_matches) :
            FirstAt(content, srt_matches[i]) < FirstAt(content, srt_matches[j])
                => i < j

\* C15, amended: the extracted sequence holds the references of the
\* container tags, in the order of the text, and after them the references
\* of the bare assignments whose path no tag holds, in the order of the text.
C15_TagsThenBareInOrder ==
    phase = "extracted" =>
        LET tagPaths == {content[k].path : k \in {k \in 1..Len(content) :
                                                    IsSrtTag(content[k])}}
            tagsAt   == {k \in 1..Len(content) : IsSrtTag(content[k])}
            bareAt   == {k \in 1..Len(content) :
                           IsSrtBare(content[k]) /\ content[k].path \notin tagPaths}
            from     == Ascending(tagsAt) \o Ascending(bareAt)
        IN  /\ Len(srt_matches) = Len(from)
            /\ \A i \in 1..Len(from) : srt_matches[i] = RefOf(content[from[i]])

\* C15 happens: a bare assignment stands in the text before a tag of another
\* path, and both are extracted.
C15_Witness ==
    /\ phase = "extracted"
    /\ Len(srt_matches) = 2
    /\ \E k, n \in 1..Len(content) :
          /\ k < n
          /\ IsSrtBare(content[k])
          /\ IsSrtTag(content[n])
          /\ content[k].path # content[n].path
          /\ srt_matches[1] = RefOf(content[n])
          /\ srt_matches[2] = RefOf(content[k])

\* how many items of the text satisfy P, how many references hold path
CountItems(text, P(_)) == Cardinality({k \in 1..Len(text) : P(text[k])})

RefsOfPath(refs, path) == SelectSeq(refs, LAMBDA r : r[1] = path)

\* C16: for a path that a container tag holds, the extracted references of
\* that path are those of its tags and none is from a bare assignment: one
\* tag and any number of bare assignments give exactly one reference, with
\* the id of the tag when it has one; a path that only bare assignments hold
\* gives one reference per assignment, each without id.
C16_TagWinsOverBare ==
    phase = "extracted" =>
        \A path \in {AccentSrt, PlainSrt} :
            LET tagsAt == {k \in 1..Len(content) :
                              IsSrtTag(content[k]) /\ content[k].path = path}
                nBare  == CountItems(content,
                              LAMBDA it : IsSrtBare(it) /\ it.path = path)
                refs   == RefsOfPath(srt_matches, path)
            IN  /\ tagsAt # {} =>
                      /\ Len(refs) = Cardinality(tagsAt)
                      /\ \A i \in 1..Len(refs) :
                            refs[i] = RefOf(content[Ascending(tagsAt)[i]])
                /\ Cardinality(tagsAt) = 1 =>
                      /\ Len(refs) = 1
                      /\ \A k \in tagsAt : refs[1][2] = content[k].id
                /\ tagsAt = {} =>
                      /\ Len(refs) = nBare
                      /\ \A i \in 1..Len(refs) : refs[i][2] = None

\* C16 happens: a path stands in a bare assignment, then in a tag with an
\* id, then in a bare assignment again, and one reference with the id of the
\* tag is extracted.
C16_Witness ==
    /\ phase = "extracted"
    /\ Len(content) = 3
    /\ content[1] = Bare(AccentSrt)
    /\ content[2] = Tag(<<"Resource">>, AccentSrt, Uid1)
    /\ content[3] = Bare(AccentSrt)
    /\ srt_matches = << <<AccentSrt, Uid1>> >>

\* the record carries the warning "nothing to change"
NothingToChange(e) == WarnNothing \in Range(e.warn)

\* every record planned for a text is unresolved or has nothing to change
NothingToDo(text) ==
    \A e \in Range(Mp3Plan(text)) \cup Range(SrtPlan(text)) :
        e.new_res_path = None \/ NothingToChange(e)

\* C17: a planned record carries "nothing to change" exactly when it is
\* resolved and outside the actionable subset; no record offered at a prompt
\* carries it; and a file all of whose records are unresolved or carry it
\* reaches the save step and is left without a prompt, unchanged in memory
\* and unwritten.
C17_NothingToChangeIff ==
    pc # "idle" =>
        /\ \A n \in 1..Len(pending) :
              NothingToChange(pending[n]) <=>
                  /\ pending[n].new_res_path # None
                  /\ pending[n] \notin Range(actionable)
        /\ \A i \in 1..NScenes : \A k \in Kinds :
              \A e \in Range(offered[i][k]) : ~NothingToChange(e)
        /\ (pc = "save" /\ NothingToDo(content)) =>
              /\ answers[idx] = NoAnswers
              /\ new_content = content
              /\ ~file_changed
        /\ pc \in {"loop", "done"} =>
              \A j \in {idx - 1} \cap (1..NScenes) :
                  (readable[j] /\ NothingToDo(original[j])) =>
                      /\ answers[j] = NoAnswers
                      /\ offered[j] = NoOffers
                      /\ writes[j] = 0
                      /\ tscn[j] = original[j]

\* C17 happens: at the audio prompt one record of the batch has nothing to
\* change and is not offered, while another record, whose id changed, is.
C17_Witness ==
    /\ pc = "mp3_prompt"
    /\ \E n, m \in 1..Len(pending) :
          /\ NothingToChange(pending[n])
          /\ pending[n] \notin Range(actionable)
          /\ pending[m].new_res_path = pending[m].old_path
          /\ pending[m].old_uid # pending[m].new_uid
          /\ pending[m] \in Range(actionable)
          /\ ~NothingToChange(pending[m])

-----------------------------------------------------------------------------
(* FileWatcher (script/core.py): on_file_change, called by the thread that *)
(* dispatches the file events or the uploads, and process_batch, run by    *)
(* the threading.Timer threads that on_file_change starts.                 *)
(*                                                                         *)
(* A Timer is "waiting" until its delay has passed, "cancelled" when       *)
(* cancel() came first; once the delay has passed it runs process_batch:   *)
(* "acquire" (at the with statement), "locked" (inside it), "git" (in      *)
(* git_add_commit_push, after the lock is released), "done".  cancel() on  *)
(* a Timer that has left "waiting" has no effect.                          *)

\* the number of threads that call on_file_change
NCallers == 1

\* the most calls of on_file_change in a run
MaxChanges == 3

\* the paths that change
Paths == {"f1", "f2"}

Callers == 1..NCallers

Free == <<>>

ByCaller(c) == <<"caller", c>>

ByTimer(t) == <<"timer", t>>

\* FileWatcher.__init__, and no call in progress
InitWatch ==
    /\ pending_files = {}
    /\ lock = Free
    /\ timer = 0
    /\ timers = <<>>
    /\ callers = [c \in Callers |-> [pc |-> "idle", filepath |-> "f1"]]
    /\ reported = {}
    /\ handed = <<>>
    /\ phase = "watch"
    /\ fs = [dirs |-> {<<>>}, files |-> <<>>, side |-> NoSidecars]
    /\ pending = <<>>
    /\ actionable = <<>>
    /\ NormIdle
    /\ ResolveIdle
    /\ PlanIdle
    /\ RunIdle

\* the calls of on_file_change made so far
Calls == Len(timers) + Cardinality({c \in Callers : callers[c].pc # "idle"})

\* on_file_change(filepath) is called
Change(c, filepath) ==
    /\ callers[c].pc = "idle"
    /\ Calls < MaxChanges
    /\ callers' = [callers EXCEPT ![c] = [pc |-> "acquire", filepath |-> filepath]]
    /\ reported' = reported \cup {filepath}
    /\ UNCHANGED <<pending_files, lock, timer, timers, handed>>

\* on_file_change: with self.lock
CallerLock(c) ==
    /\ callers[c].pc = "acquire"
    /\ lock = Free
    /\ lock' = ByCaller(c)
    /\ callers' = [callers EXCEPT ![c].pc = "locked"]
    /\ UNCHANGED <<pending_files, timer, timers, reported, handed>>

\* threading.Timer.cancel
Cancel(ts, t) ==
    IF t # 0 /\ ts[t].state = "waiting"
    THEN [ts EXCEPT ![t].state = "cancelled"]
    ELSE ts

\* threading.Timer(self.batch_delay, self.process_batch), started
NewTimer == [state |-> "waiting", files |-> {}]

\* a variant that starts a Timer only when none was started before
CallerBodyTimerOnce(c) ==
    /\ callers[c].pc = "locked"
    /\ pending_files' = pending_files \cup {callers[c].filepath}
    /\ IF timer = 0
       THEN /\ timers' = Append(timers, NewTimer)
            /\ timer' = Len(timers) + 1
       ELSE UNCHANGED <<timers, timer>>
    /\ lock' = Free
    /\ callers' = [callers EXCEPT ![c].pc = "idle"]
    /\ UNCHANGED <<reported, handed>>

\* on_file_change: the body of the with statement, and the release
CallerBody(c) ==
    /\ callers[c].pc = "locked"
    /\ pending_files' = pending_files \cup {callers[c].filepath}
    /\ timers' = Append(Cancel(timers, timer), NewTimer)
    /\ timer' = Len(timers) + 1
    /\ lock' = Free
    /\ callers' = [callers EXCEPT ![c].pc = "idle"]
    /\ UNCHANGED <<reported, handed>>

\* the delay of Timer t has passed and it was not cancelled: process_batch
\* starts in the Timer's thread
Fire(t) ==
    /\ timers[t].state = "waiting"
    /\ timers' = [timers EXCEPT ![t].state = "acquire"]
    /\ UNCHANGED <<pending_files, lock, timer, callers, reported, handed>>

\* process_batch: with self.lock
TimerLock(t) ==
    /\ timers[t].state = "acquire"
    /\ lock = Free
    /\ lock' = ByTimer(t)
    /\ timers' = [timers EXCEPT ![t].state = "locked"]
    /\ UNCHANGED <<pending_files, timer, callers, reported, handed>>

\* process_batch: the body of the with statement and the release; with
\* files to commit, git_add_commit_push(files, ...) is called next
TimerBody(t) ==
    /\ timers[t].state = "locked"
    /\ lock' = Free
    /\ IF pending_files = {}
       THEN /\ timers' = [timers EXCEPT ![t].state = "done"]
            /\ UNCHANGED <<pending_files, handed>>
       ELSE /\ timers' = [timers EXCEPT ![t] = [state |-> "git",
                                                files |-> pending_files]]
            /\ pending_files' = {}
            /\ handed' = Append(handed, [by    |-> t,
                                         files |-> pending_files,
                                         timer |-> timer])
    /\ UNCHANGED <<timer, callers, reported>>

\* git_add_commit_push returns
GitDone(t) ==
    /\ timers[t].state = "git"
    /\ timers' = [timers EXCEPT ![t].state = "done"]
    /\ UNCHANGED <<pending_files, lock, timer, callers, reported, handed>>

\* the variables the watcher does not use
idleVars == <<fs, normVars, resolveVars, planVars, phase, pending, actionable,
              runVars>>

OnFileChange ==
    /\ \E c \in Callers : \E filepath \in Paths : Change(c, filepath)
    /\ UNCHANGED idleVars

CallerLocks ==
    /\ \E c \in Callers : CallerLock(c)
    /\ UNCHANGED idleVars

CallerBodies ==
    /\ \E c \in Callers : CallerBody(c)
    /\ UNCHANGED idleVars

Fires ==
    /\ \E t \in 1..Len(timers) : Fire(t)
    /\ UNCHANGED idleVars

TimerLocks ==
    /\ \E t \in 1..Len(timers) : TimerLock(t)
    /\ UNCHANGED idleVars

TimerBodies ==
    /\ \E t \in 1..Len(timers) : TimerBody(t)
    /\ UNCHANGED idleVars

GitDones ==
    /\ \E t \in 1..Len(timers) : GitDone(t)
    /\ UNCHANGED idleVars

NextWatch ==
    \/ OnFileChange
    \/ CallerLocks
    \/ CallerBodies
    \/ Fires
    \/ TimerLocks
    \/ TimerBodies
    \/ GitDones

SpecWatch == InitWatch /\ [][NextWatch]_vars

\* the threads run on: a thread that can take its next step takes it, a
\* Timer that is not cancelled fires; on_file_change is called or not
SpecWatchLive ==
    /\ InitWatch
    /\ [][NextWatch]_vars
    /\ WF_vars(CallerLocks)
    /\ WF_vars(CallerBodies)
    /\ WF_vars(Fires)
    /\ WF_vars(TimerLocks)
    /\ WF_vars(TimerBodies)
    /\ WF_vars(GitDones)

\* path f was passed to on_file_change and not yet to git_add_commit_push
Owed(f) ==
    \/ f \in pending_files
    \/ \E c \in Callers : callers[c].pc # "idle" /\ callers[c].filepath = f

\* the batch handed over in this step, if any
HandedNow == IF Len(handed') > Len(handed) THEN handed'[Len(handed')].files ELSE {}

\* C18: no call of git_add_commit_push has an empty batch; a call of
\* on_file_change puts its path into pending_files; a path leaves
\* pending_files only in the batch that is handed to git_add_commit_push in
\* the same step; every path that is owed is handed over later; and in the
\* end pending_files is empty for good.
C18_NoChangeLost ==
    /\ [](\A i \in 1..Len(handed) : handed[i].files # {})
    /\ [][\A c \in Callers :
            (callers[c].pc = "locked" /\ callers'[c].pc = "idle")
                => callers[c].filepath \in pending_files']_vars
    /\ [][(pending_files \ pending_files') \subseteq HandedNow]_vars
    /\ \A f \in Paths : Owed(f) ~> ~Owed(f)
    /\ <>[](pending_files = {})

\* C18 happens: a change was reported while a Timer was waiting, which was
\* cancelled, and a later Timer handed over both paths in one batch; then a
\* further change came and was handed over too.
C18_Witness ==
    /\ Len(handed) = 2
    /\ handed[1].files = Paths
    /\ \E t \in 1..Len(timers) : timers[t].state = "cancelled"
    /\ pending_files = {}
    /\ \A t \in 1..Len(timers) : timers[t].state \in {"cancelled", "done"}

\* C19: every batch is handed to git_add_commit_push by the Timer that
\* self.timer refers to when the batch is taken, never by a Timer that a
\* later on_file_change has replaced.
C19_OnlyLatestTimerCommits ==
    \A i \in 1..Len(handed) : handed[i].timer = handed[i].by

\* C20: at most one Timer thread is inside git_add_commit_push.
C20_OneGitAtATime ==
    Cardinality({t \in 1..Len(timers) : timers[t].state = "git"}) <= 1

=============================================================================
